---- MODULE Spec2Model ----
(***************************************************************************)
(* A state-machine model of share.py: one invocation of main(), which      *)
(* reads the --config file, calls get_data() (np.loadtxt of the telemetry  *)
(* files, derivation of the series and their means, optional GPU series),  *)
(* plot_data() (four histogram panels saved to ./plot.png), formats the    *)
(* text summary and sends photo and text through the bot.                  *)
(*                                                                         *)
(* Numbers are exact extended rationals [n, d]: d > 0 is the rational n/d  *)
(* in lowest terms, d = 0 is one of the IEEE specials numpy produces on a  *)
(* division by zero (n = 1: inf, n = -1: -inf, n = 0: nan).  Rounding      *)
(* error of binary floating point is not modelled.  A numpy array is a     *)
(* sequence; np.loadtxt squeezes a one-value file to a 0-d array, so a     *)
(* sequence of length 1 stands for a 0-d array (it broadcasts with every   *)
(* shape, and its .size is 1).                                             *)
(***************************************************************************)
EXTENDS Integers, Sequences, FiniteSets, TLC

VARIABLES pc, data, locals, host_name, distro_name, history, avg,
          path, plot_png, saves, text, bot, sent, err, observed

vars == <<pc, data, locals, host_name, distro_name, history, avg,
          path, plot_png, saves, text, bot, sent, err, observed>>

----------------------------------------------------------------------------
(* Bounds of the model. *)

\* largest number of samples (lines) of a telemetry file
MaxLen == 2

----------------------------------------------------------------------------
(* Extended rational arithmetic (numpy float64 without rounding). *)

\* arguments of a function are values: evaluated once, not once per use
GCD[a \in Nat, b \in Nat] == IF b = 0 THEN a ELSE GCD[b, a % b]

Abs(x) == IF x < 0 THEN -x ELSE x

Sign(x) == IF x > 0 THEN 1 ELSE IF x < 0 THEN -1 ELSE 0

NaN == [n |-> 0, d |-> 0]

Inf == [n |-> 1, d |-> 0]

NegInf == [n |-> -1, d |-> 0]

IsFinite(q) == q.d > 0

\* the values of the arithmetic
Float == [n : Int, d : Nat]

\* The operations are functions: TLC evaluates the argument of a function
\* once, and the argument of an operator once per use.

\* n/d in lowest terms, d > 0
Norm[n \in Int, d \in Nat] ==
    LET g == GCD[Abs(n), d]
    IN  [n |-> n \div g, d |-> d \div g]

\* x / y of two loaded samples (non-negative integers): numpy returns inf or
\* nan on a zero divisor, it does not raise
TrueDivide[x \in Nat, y \in Nat] ==
    IF y = 0 THEN (IF x = 0 THEN NaN ELSE Inf)
    ELSE Norm[x, y]

\* q * 100
Times100[q \in Float] == IF q.d = 0 THEN q ELSE Norm[q.n * 100, q.d]

\* 1 - q
OneMinus[q \in Float] ==
    IF q.d = 0 THEN [n |-> -(q.n), d |-> 0] ELSE Norm[q.d - q.n, q.d]

\* a + b
Add[a \in Float, b \in Float] ==
    IF a.d = 0 /\ b.d = 0 THEN (IF a.n = b.n THEN a ELSE NaN)
    ELSE IF a.d = 0 THEN a
    ELSE IF b.d = 0 THEN b
    ELSE Norm[a.n * b.d + b.n * a.d, a.d * b.d]

\* the sum of the first k samples of s
SumTo[s \in Seq(Float), k \in Nat] ==
    IF k = 0 THEN [n |-> 0, d |-> 1] ELSE Add[SumTo[s, k - 1], s[k]]

\* np.sum
SumSeq(s) == SumTo[s, Len(s)]

\* q / k for a count k >= 0
DivCount[q \in Float, k \in Nat] ==
    IF k = 0 THEN (IF q.d = 0 THEN q ELSE [n |-> Sign(q.n), d |-> 0])
    ELSE IF q.d = 0 THEN q
    ELSE Norm[q.n, q.d * k]

\* a mean that forgets to divide by the number of samples
Mean_SumOnly(s) == IF Len(s) = 0 THEN NaN ELSE SumSeq(s)

\* np.mean: the sum of the samples over their number (nan for no sample)
Mean(s) == DivCount[SumSeq(s), Len(s)]

----------------------------------------------------------------------------
(* numpy arrays: broadcasting and the elementwise operations of get_data. *)

\* two shapes broadcast: equal lengths, or one of them 0-d
Broadcastable(a, b) == Len(a) = 1 \/ Len(b) = 1 \/ Len(a) = Len(b)

BroadcastLen(a, b) == IF Len(a) = 1 THEN Len(b) ELSE Len(a)

At(a, i) == IF Len(a) = 1 THEN a[1] ELSE a[i]

\* cpu_load/num_cores*100
CpuSeries(cpu_load, num_cores) ==
    [i \in 1..BroadcastLen(cpu_load, num_cores) |->
        Times100[TrueDivide[At(cpu_load, i), At(num_cores, i)]]]

\* (1-mem_free/mem_total)*100
RamSeries(mem_free, mem_total) ==
    [i \in 1..BroadcastLen(mem_free, mem_total) |->
        Times100[OneMinus[TrueDivide[At(mem_free, i), At(mem_total, i)]]]]

\* cpu_temp/1000
TempSeries(cpu_temp) == [i \in 1..Len(cpu_temp) |-> TrueDivide[cpu_temp[i], 1000]]

\* gpu_used/gpu_total*100
GpuSeries(gpu_used, gpu_total) ==
    [i \in 1..BroadcastLen(gpu_used, gpu_total) |->
        Times100[TrueDivide[At(gpu_used, i), At(gpu_total, i)]]]

\* the sentinel of the averages mapping
NA == [str |-> "N/A"]

----------------------------------------------------------------------------
(* The inputs of a run: what each read of the environment can return. *)

\* n consecutive samples s, s+1, ...
Ramp(n, s) == [i \in 1..n |-> s + i - 1]

\* files of measurements: empty, one value (0-d) or a series
Measurements == {Ramp(n, 1) : n \in 0..MaxLen}

\* files of totals (the divisors), which may also hold zeros
Totals == {Ramp(n, s) : n \in 0..MaxLen, s \in {0, 1}}

\* why a read raises
Failures == {"absent", "unreadable"}

\* the np.loadtxt calls of lines 33-39, in order
Required == <<
    [var |-> "num_cores",   file |-> "numCores.txt",   contents |-> Totals],
    [var |-> "cpu_load",    file |-> "cpuLoad.txt",    contents |-> Measurements],
    [var |-> "cpu_temp",    file |-> "cpuTemp.txt",    contents |-> Measurements],
    [var |-> "mem_free",    file |-> "memFree.txt",    contents |-> Measurements],
    [var |-> "mem_total",   file |-> "memTotal.txt",   contents |-> Totals],
    [var |-> "distro_name", file |-> "distroName.txt", contents |-> {<<"Arch">>, <<"Ubuntu", "LTS">>}],
    [var |-> "host_name",   file |-> "hostName.txt",   contents |-> {<<"box">>}] >>

\* what json.load can return for the --config file
Configs ==
    { [k \in K |-> IF k = "token" THEN "T0K3N" ELSE "chat42"] :
        K \in SUBSET {"token", "chatID"} }

\* the empty dict
EmptyDict == [k \in {} |-> 0]

NoErr == [at |-> "", why |-> ""]

----------------------------------------------------------------------------
(* State after construction: main() has not run a statement yet. *)

Init ==
    /\ pc = "parse_args"
    /\ data = EmptyDict
    /\ locals = EmptyDict
    /\ host_name = <<>>
    /\ distro_name = <<>>
    /\ history = EmptyDict
    /\ avg = EmptyDict
    /\ path = ""
    /\ plot_png = EmptyDict
    /\ saves = 0
    /\ text = <<>>
    /\ bot = "none"
    /\ sent = <<>>
    /\ err = NoErr
    /\ observed = EmptyDict

\* an exception propagates out of main: the run ends
Raise(why) ==
    /\ pc' = "error"
    /\ err' = [at |-> pc, why |-> why]

----------------------------------------------------------------------------
(* main, lines 124-129: the arguments and the configuration file. *)

ParseArgs ==
    /\ pc = "parse_args"
    /\ \E given \in BOOLEAN :
        IF given THEN pc' = "open_config" /\ err' = err
        ELSE Raise("absent")
    /\ UNCHANGED <<data, locals, host_name, distro_name, history, avg,
                   path, plot_png, saves, text, bot, sent, observed>>

ReadConfig ==
    /\ pc = "open_config"
    /\ \/ \E d \in Configs :
            /\ data' = d
            /\ observed' = ("config" :> "ok") @@ observed
            /\ pc' = "numCores.txt"
            /\ err' = err
       \/ \E f \in Failures :
            /\ Raise(f)
            /\ observed' = ("config" :> f) @@ observed
            /\ data' = data
    /\ UNCHANGED <<locals, host_name, distro_name, history, avg,
                   path, plot_png, saves, text, bot, sent>>

----------------------------------------------------------------------------
(* get_data, lines 33-58. *)

AfterLoad(i) == IF i < Len(Required) THEN Required[i + 1].file ELSE "derive"

\* LoadTxt with a failed read replaced by an empty array
LoadTxt_Substitutes(i) ==
    /\ pc = Required[i].file
    /\ \/ \E c \in Required[i].contents :
            /\ IF Required[i].var = "distro_name"
                 THEN distro_name' = c /\ UNCHANGED <<locals, host_name>>
               ELSE IF Required[i].var = "host_name"
                 THEN host_name' = c /\ UNCHANGED <<locals, distro_name>>
               ELSE /\ locals' = (Required[i].var :> c) @@ locals
                    /\ UNCHANGED <<host_name, distro_name>>
            /\ observed' = (Required[i].file :> "ok") @@ observed
       \/ \E f \in Failures :
            /\ IF Required[i].var \in {"distro_name", "host_name"}
                 THEN UNCHANGED <<locals, host_name, distro_name>>
               ELSE /\ locals' = (Required[i].var :> <<>>) @@ locals
                    /\ UNCHANGED <<host_name, distro_name>>
            /\ observed' = (Required[i].file :> f) @@ observed
    /\ pc' = AfterLoad(i)
    /\ UNCHANGED <<data, history, avg, path, plot_png, saves, text, bot, sent, err>>

\* one np.loadtxt of lines 33-39
LoadTxt(i) ==
    /\ pc = Required[i].file
    /\ \/ \E c \in Required[i].contents :
            /\ IF Required[i].var = "distro_name"
                 THEN distro_name' = c /\ UNCHANGED <<locals, host_name>>
               ELSE IF Required[i].var = "host_name"
                 THEN host_name' = c /\ UNCHANGED <<locals, distro_name>>
               ELSE /\ locals' = (Required[i].var :> c) @@ locals
                    /\ UNCHANGED <<host_name, distro_name>>
            /\ observed' = (Required[i].file :> "ok") @@ observed
            /\ pc' = AfterLoad(i)
            /\ err' = err
       \/ \E f \in Failures :
            /\ Raise(f)
            /\ observed' = (Required[i].file :> f) @@ observed
            /\ UNCHANGED <<locals, host_name, distro_name>>
    /\ UNCHANGED <<data, history, avg, path, plot_png, saves, text, bot, sent>>

\* a sample count taken from the temperature file
HistorySize_FromTemp(l) == Len(l.cpu_temp)

\* line 45: cpu_load.size
HistorySize(l) == Len(l.cpu_load)

\* lines 41-48: the three series, the sample count and the three means
Derive ==
    /\ pc = "derive"
    /\ IF ~Broadcastable(locals.cpu_load, locals.num_cores)
         THEN Raise("shape") /\ UNCHANGED <<history, avg>>
       ELSE IF ~Broadcastable(locals.mem_free, locals.mem_total)
         THEN /\ Raise("shape")
              /\ history' = [cpu |-> CpuSeries(locals.cpu_load, locals.num_cores)]
              /\ avg' = avg
       ELSE \E h \in {[cpu  |-> CpuSeries(locals.cpu_load, locals.num_cores),
                       ram  |-> RamSeries(locals.mem_free, locals.mem_total),
                       temp |-> TempSeries(locals.cpu_temp),
                       size |-> HistorySize(locals)]} :
            /\ history' = h
            /\ avg' = [key \in {"ram", "cpu", "temp"} |-> Mean(h[key])]
            /\ pc' = "gpu"
            /\ err' = err
    /\ UNCHANGED <<data, locals, host_name, distro_name,
                   path, plot_png, saves, text, bot, sent, observed>>

\* Gpu with the series stored before the division that can fail
Gpu_StoresBeforeDividing ==
    /\ pc = "gpu"
    /\ \/ \E f \in Failures :
            /\ observed' = ("gpuUsed.txt" :> f) @@ observed
            /\ locals' = locals
            /\ history' = history
            /\ avg' = ("gpu" :> NA) @@ avg
       \/ \E u \in Measurements :
          \E f \in Failures :
            /\ observed' = ("gpuTotal.txt" :> f) @@ ("gpuUsed.txt" :> "ok") @@ observed
            /\ locals' = ("gpu_used" :> u) @@ locals
            /\ history' = ("gpu" :> [i \in 1..Len(u) |-> Norm[u[i], 1]]) @@ history
            /\ avg' = ("gpu" :> NA) @@ avg
       \/ \E u \in Measurements :
          \E t \in Totals :
            /\ observed' = ("gpuTotal.txt" :> "ok") @@ ("gpuUsed.txt" :> "ok") @@ observed
            /\ locals' = ("gpu_total" :> t) @@ ("gpu_used" :> u) @@ locals
            /\ IF Broadcastable(u, t)
                 THEN \E g \in {GpuSeries(u, t)} :
                      /\ history' = ("gpu" :> g) @@ history
                      /\ avg' = ("gpu" :> Mean(g)) @@ avg
               ELSE /\ history' = ("gpu" :> [i \in 1..Len(u) |-> Norm[u[i], 1]]) @@ history
                    /\ avg' = ("gpu" :> NA) @@ avg
    /\ pc' = "return"
    /\ UNCHANGED <<data, host_name, distro_name,
                   path, plot_png, saves, text, bot, sent, err>>

\* lines 50-56: the optional GPU series; any exception yields the sentinel
Gpu ==
    /\ pc = "gpu"
    /\ \/ \E f \in Failures :
            /\ observed' = ("gpuUsed.txt" :> f) @@ observed
            /\ locals' = locals
            /\ history' = history
            /\ avg' = ("gpu" :> NA) @@ avg
       \/ \E u \in Measurements :
          \E f \in Failures :
            /\ observed' = ("gpuTotal.txt" :> f) @@ ("gpuUsed.txt" :> "ok") @@ observed
            /\ locals' = ("gpu_used" :> u) @@ locals
            /\ history' = history
            /\ avg' = ("gpu" :> NA) @@ avg
       \/ \E u \in Measurements :
          \E t \in Totals :
            /\ observed' = ("gpuTotal.txt" :> "ok") @@ ("gpuUsed.txt" :> "ok") @@ observed
            /\ locals' = ("gpu_total" :> t) @@ ("gpu_used" :> u) @@ locals
            /\ IF Broadcastable(u, t)
                 THEN \E g \in {GpuSeries(u, t)} :
                      /\ history' = ("gpu" :> g) @@ history
                      /\ avg' = ("gpu" :> Mean(g)) @@ avg
               ELSE /\ history' = history
                    /\ avg' = ("gpu" :> NA) @@ avg
    /\ pc' = "return"
    /\ UNCHANGED <<data, host_name, distro_name,
                   path, plot_png, saves, text, bot, sent, err>>

\* Return with the call of plot_data left out
Return_SkipsPlot ==
    /\ pc = "return"
    /\ locals' = EmptyDict
    /\ pc' = "format"
    /\ UNCHANGED <<data, host_name, distro_name, history, avg,
                   path, plot_png, saves, text, bot, sent, err, observed>>

\* line 58: get_data returns; its arrays go out of scope
Return ==
    /\ pc = "return"
    /\ locals' = EmptyDict
    /\ pc' = "plot"
    /\ UNCHANGED <<data, host_name, distro_name, history, avg,
                   path, plot_png, saves, text, bot, sent, err, observed>>

----------------------------------------------------------------------------
(* plot_data, lines 85-116. *)

\* Axes.hist raises: without an explicit range the bin range is taken from
\* the data (nanmin, nanmax), and np.histogram rejects a range that is not
\* finite; with range=(0,100) samples outside the range are dropped
HistRaises(x, ranged) ==
    /\ ~ranged
    /\ \/ \E i \in 1..Len(x) : x[i] \in {Inf, NegInf}
       \/ Len(x) > 0 /\ \A i \in 1..Len(x) : x[i] = NaN

\* lines 99-104: the GPU panel, a histogram or the placeholder bar
GpuPanel(h) ==
    IF "gpu" \in DOMAIN h /\ ~HistRaises(h.gpu, FALSE) THEN "hist" ELSE "No GPU"

\* PlotData without the try/except around the GPU panel
PlotData_NoFallback ==
    /\ pc = "plot"
    /\ IF GpuPanel(history) = "No GPU" THEN
            Raise("gpu") /\ UNCHANGED <<path, plot_png, saves>>
       ELSE IF HistRaises(history.temp, FALSE) THEN
            Raise("temp") /\ UNCHANGED <<path, plot_png, saves>>
       ELSE /\ plot_png' = [cpu |-> "hist", ram |-> "hist",
                            gpu |-> "hist", temp |-> "hist"]
            /\ saves' = saves + 1
            /\ path' = "./plot.png"
            /\ pc' = "format"
            /\ err' = err
    /\ UNCHANGED <<data, locals, host_name, distro_name, history, avg,
                   text, bot, sent, observed>>

PlotData ==
    /\ pc = "plot"
    /\ IF HistRaises(history.cpu, TRUE) THEN
            Raise("cpu") /\ UNCHANGED <<path, plot_png, saves>>
       ELSE IF HistRaises(history.ram, TRUE) THEN
            Raise("ram") /\ UNCHANGED <<path, plot_png, saves>>
       ELSE IF HistRaises(history.temp, FALSE) THEN
            Raise("temp") /\ UNCHANGED <<path, plot_png, saves>>
       ELSE /\ plot_png' = [cpu |-> "hist", ram |-> "hist",
                            gpu |-> GpuPanel(history), temp |-> "hist"]
            /\ saves' = saves + 1
            /\ path' = "./plot.png"
            /\ pc' = "format"
            /\ err' = err
    /\ UNCHANGED <<data, locals, host_name, distro_name, history, avg,
                   text, bot, sent, observed>>

----------------------------------------------------------------------------
(* main, lines 133-146: the text summary and the transmission. *)

\* the integer nearest to 10*n/d, ties to even
RoundTenths(n, d) ==
    LET f == (10 * n) \div d
        r == 10 * n - f * d
    IN  IF 2 * r < d THEN f
        ELSE IF 2 * r > d THEN f + 1
        ELSE IF f % 2 = 0 THEN f ELSE f + 1

\* format(q, ".1f")
Format1f(q) ==
    IF q.d > 0 THEN [tenths |-> RoundTenths(q.n, q.d)]
    ELSE IF q.n = 0 THEN [str |-> "nan"]
    ELSE IF q.n > 0 THEN [str |-> "inf"] ELSE [str |-> "-inf"]

\* a test against another spelling of the sentinel: always true
GpuAvailable_WrongSentinel(a) == a["gpu"] # [str |-> "NA"]

\* line 137: avg['gpu'] != "N/A"
GpuAvailable(a) == a["gpu"] # NA

\* lines 137-140: the GPU line of the summary
GpuLine(a) ==
    IF GpuAvailable(a)
      THEN [label |-> "GPU", body |-> Format1f(a["gpu"]), unit |-> "%"]
    ELSE [label |-> "GPU", body |-> [str |-> "N/A"], unit |-> ""]

\* a value ".1f" can format: a number, not a string
Formattable(v) == DOMAIN v = {"n", "d"}

FormatText ==
    /\ pc = "format"
    /\ IF Len(distro_name) = 1 THEN
            \* ' '.join of a 0-d array: TypeError
            Raise("0-d") /\ text' = text
       ELSE IF GpuAvailable(avg) /\ ~Formattable(avg["gpu"]) THEN
            Raise("str") /\ text' = text
       ELSE /\ text' = <<
                 [label |-> "host", body |-> [host |-> host_name, distro |-> distro_name], unit |-> ""],
                 [label |-> "CPU", body |-> Format1f(avg["cpu"]), unit |-> "%"],
                 [label |-> "RAM", body |-> Format1f(avg["ram"]), unit |-> "%"],
                 GpuLine(avg),
                 [label |-> "Thermal", body |-> Format1f(avg["temp"]), unit |-> "C"] >>
            /\ pc' = "bot"
            /\ err' = err
    /\ UNCHANGED <<data, locals, host_name, distro_name, history, avg,
                   path, plot_png, saves, bot, sent, observed>>

\* line 143: telegram.Bot(data["token"])
MakeBot ==
    /\ pc = "bot"
    /\ IF "token" \in DOMAIN data
         THEN bot' = "created" /\ pc' = "enter" /\ err' = err
       ELSE Raise("KeyError") /\ bot' = bot
    /\ UNCHANGED <<data, locals, host_name, distro_name, history, avg,
                   path, plot_png, saves, text, sent, observed>>

\* line 144: async with bot (initialize contacts the service)
EnterBot ==
    /\ pc = "enter"
    /\ \E ok \in BOOLEAN :
        IF ok THEN bot' = "initialized" /\ pc' = "send_photo" /\ err' = err
        ELSE Raise("network") /\ bot' = "shutdown"
    /\ UNCHANGED <<data, locals, host_name, distro_name, history, avg,
                   path, plot_png, saves, text, sent, observed>>

\* SendPhoto with a failed send swallowed
SendPhoto_IgnoresError ==
    /\ pc = "send_photo"
    /\ IF "chatID" \notin DOMAIN data THEN
            Raise("KeyError") /\ bot' = "shutdown" /\ sent' = sent
       ELSE \E ok \in BOOLEAN :
            /\ sent' = IF ok THEN Append(sent, [kind |-> "photo", chat_id |-> data["chatID"], payload |-> <<path>>])
                       ELSE sent
            /\ pc' = "send_message"
            /\ UNCHANGED <<bot, err>>
    /\ UNCHANGED <<data, locals, host_name, distro_name, history, avg,
                   path, plot_png, saves, text, observed>>

\* line 145: await bot.sendPhoto(data["chatID"], path)
SendPhoto ==
    /\ pc = "send_photo"
    /\ IF "chatID" \notin DOMAIN data THEN
            Raise("KeyError") /\ bot' = "shutdown" /\ sent' = sent
       ELSE \E ok \in BOOLEAN :
            IF ok THEN /\ sent' = Append(sent, [kind |-> "photo", chat_id |-> data["chatID"], payload |-> <<path>>])
                       /\ pc' = "send_message"
                       /\ UNCHANGED <<bot, err>>
            ELSE Raise("network") /\ bot' = "shutdown" /\ sent' = sent
    /\ UNCHANGED <<data, locals, host_name, distro_name, history, avg,
                   path, plot_png, saves, text, observed>>

\* SendMessage with a failed send retried from the photo
SendMessage_Retries ==
    /\ pc = "send_message"
    /\ \E ok \in BOOLEAN :
        IF ok THEN /\ sent' = Append(sent, [kind |-> "message", chat_id |-> data["chatID"], payload |-> text])
                   /\ pc' = "done"
                   /\ bot' = "shutdown"
        ELSE /\ sent' = sent
             /\ pc' = IF Len(sent) < 2 THEN "send_photo" ELSE "done"
             /\ bot' = bot
    /\ err' = err
    /\ UNCHANGED <<data, locals, host_name, distro_name, history, avg,
                   path, plot_png, saves, text, observed>>

\* line 146: await bot.sendMessage(data["chatID"], text), then the block exits
SendMessage ==
    /\ pc = "send_message"
    /\ \E ok \in BOOLEAN :
        IF ok THEN /\ sent' = Append(sent, [kind |-> "message", chat_id |-> data["chatID"], payload |-> text])
                   /\ pc' = "done"
                   /\ err' = err
        ELSE Raise("network") /\ sent' = sent
    /\ bot' = "shutdown"
    /\ UNCHANGED <<data, locals, host_name, distro_name, history, avg,
                   path, plot_png, saves, text, observed>>

----------------------------------------------------------------------------

Next ==
    \/ ParseArgs
    \/ ReadConfig
    \/ \E i \in 1..Len(Required) : LoadTxt(i)
    \/ Derive
    \/ Gpu
    \/ Return
    \/ PlotData
    \/ FormatText
    \/ MakeBot
    \/ EnterBot
    \/ SendPhoto
    \/ SendMessage

Spec == Init /\ [][Next]_vars

\* asyncio.run drives main to its end: a statement that can run does run
FairSpec == Spec /\ WF_vars(Next)

----------------------------------------------------------------------------
(* The position of a run in main. *)

\* the statements of one invocation, in program order
Order == <<"parse_args", "open_config",
           "numCores.txt", "cpuLoad.txt", "cpuTemp.txt", "memFree.txt",
           "memTotal.txt", "distroName.txt", "hostName.txt",
           "derive", "gpu", "return", "plot", "format",
           "bot", "enter", "send_photo", "send_message", "done">>

Pos(p) == CHOOSE i \in 1..Len(Order) : Order[i] = p

\* the statement the run is at, or the one that raised
Stage == IF pc = "error" THEN err.at ELSE pc

\* strictly increasing along a run; an error state is last
Rank == IF pc = "error" THEN Len(Order) + 1 ELSE Pos(pc)

Terminated == pc \in {"done", "error"}

\* the --config file has been opened and parsed
ConfigRead == "config" \in DOMAIN observed

\* all of lines 33-39 have run
TelemetryLoaded == Pos(Stage) > Pos("hostName.txt")

\* lines 41-56 have run
Derived == Pos(Stage) > Pos("gpu")

ImageSaved == saves > 0

Photos == {i \in 1..Len(sent) : sent[i].kind = "photo"}

Messages == {i \in 1..Len(sent) : sent[i].kind = "message"}

----------------------------------------------------------------------------
(* C1: order of the steps of main. *)

\* C1 as stated: the configuration file is never read before the telemetry
\* data has been loaded and the image saved.
C1_ConfigReadAfterImage == ConfigRead => (TelemetryLoaded /\ ImageSaved)

\* C1, amended: the configuration file is read first, before any telemetry
\* file is loaded; then the telemetry is loaded and the series and means are
\* derived, then the image is rendered and saved, only then the text summary
\* is formatted, and only then the bot is created from the configuration's
\* token and image and text are transmitted.
C1_StepOrder ==
    /\ (DOMAIN observed # {}) => ConfigRead
    /\ (DOMAIN history # {}) => TelemetryLoaded /\ observed["hostName.txt"] = "ok"
    /\ ImageSaved => Derived /\ "gpu" \in DOMAIN avg
                             /\ {"cpu", "ram", "temp"} \subseteq DOMAIN history
    /\ (text # <<>>) => ImageSaved /\ path = "./plot.png"
    /\ (bot # "none") => text # <<>> /\ observed["config"] = "ok"
    /\ (sent # <<>>) => bot # "none" /\ text # <<>> /\ ImageSaved

\* a run that sent the message: every step has happened
C1_Witness == pc = "done" /\ Len(sent) = 2 /\ ImageSaved /\ ConfigRead

----------------------------------------------------------------------------
(* C4: a missing required input ends the run. *)

RequiredFiles == {Required[i].file : i \in 1..Len(Required)} \cup {"config"}

\* the file a local of get_data was loaded from
FileOf(var) ==
    IF var = "gpu_used" THEN "gpuUsed.txt"
    ELSE IF var = "gpu_total" THEN "gpuTotal.txt"
    ELSE Required[CHOOSE i \in 1..Len(Required) : Required[i].var = var].file

\* C4: when a required input is missing or unreadable (a required telemetry
\* file, the --config file, or its token or chatID entry) the run ends in an
\* error state with neither photo nor message sent, and no substitute value
\* or sentinel stands in for a required input.
C4_RequiredInputsFail ==
    /\ \A f \in DOMAIN observed :
          (f \in RequiredFiles /\ observed[f] \in Failures) =>
              pc = "error" /\ sent = <<>>
    /\ (pc = "error") => ~ENABLED Next
    /\ (ConfigRead /\ observed["config"] = "ok" /\ "token" \notin DOMAIN data) =>
          /\ sent = <<>> /\ bot = "none"
          /\ Rank > Pos("bot") => pc = "error"
    /\ (ConfigRead /\ observed["config"] = "ok" /\ "chatID" \notin DOMAIN data) =>
          /\ sent = <<>>
          /\ Rank > Pos("send_photo") => pc = "error"
    /\ \A var \in DOMAIN locals : observed[FileOf(var)] = "ok"
    /\ \A key \in DOMAIN avg \ {"gpu"} : avg[key] # NA

\* a required telemetry file was missing
C4_Witness ==
    /\ pc = "error"
    /\ err = [at |-> "memTotal.txt", why |-> "absent"]
    /\ observed["memTotal.txt"] = "absent"
    /\ sent = <<>>

----------------------------------------------------------------------------
(* C5: one linear pass. *)

\* C5: every step runs at most once, with no loop back or retry (each step
\* moves the run strictly forward in program order): at most one photo and
\* one message are sent, the image is written at most once, and every run
\* reaches the completed state or an error state.
C5_SinglePass ==
    /\ [][Rank' > Rank]_vars
    /\ [](saves <= 1 /\ Cardinality(Photos) <= 1 /\ Cardinality(Messages) <= 1)
    /\ <>Terminated

\* a completed run: one image, one photo, one message
C5_Witness ==
    pc = "done" /\ saves = 1 /\ Cardinality(Photos) = 1 /\ Cardinality(Messages) = 1

----------------------------------------------------------------------------
(* C7: the photo goes first. *)

\* C7: the image is transmitted before the text, both to the chat ID of the
\* configuration, and the text only after the photo was sent without error:
\* in no state has the message been sent and the photo not.
C7_PhotoBeforeMessage ==
    /\ Len(sent) <= 2
    /\ \A i \in 1..Len(sent) :
          /\ sent[i].chat_id = data["chatID"]
          /\ sent[i].kind = IF i = 1 THEN "photo" ELSE "message"
    /\ (Messages # {}) => Photos # {}
    /\ (pc = "error" /\ err.at = "send_photo") => sent = <<>>

\* the photo was sent and then the message
C7_Witness ==
    /\ Len(sent) = 2
    /\ sent[1].kind = "photo" /\ sent[2].kind = "message"
    /\ sent[2].chat_id = "chat42"

----------------------------------------------------------------------------
(* C2: the GPU fallback of get_data. *)

\* the try block of lines 50-54 raised: a file could not be loaded, or the
\* two arrays do not broadcast
GpuFailed ==
    \/ \E f \in {"gpuUsed.txt", "gpuTotal.txt"} :
          f \in DOMAIN observed /\ observed[f] \in Failures
    \/ /\ {"gpu_used", "gpu_total"} \subseteq DOMAIN locals
       /\ Len(locals["gpu_used"]) # Len(locals["gpu_total"])
       /\ Len(locals["gpu_used"]) # 1
       /\ Len(locals["gpu_total"]) # 1

\* C2: when the required files load but loading or deriving the GPU series
\* fails, get_data still returns, with avg['gpu'] the sentinel, no 'gpu' key
\* in history, and the cpu, ram and temp series and means as they were
\* before the GPU step (so the same as when GPU data is present); and
\* history has the key 'gpu' exactly when avg['gpu'] is not the sentinel.
C2_GpuFallback ==
    /\ [](/\ ~(pc = "error" /\ err.at = "gpu")
          /\ GpuFailed => /\ avg["gpu"] = NA
                          /\ "gpu" \notin DOMAIN history
          /\ ("gpu" \in DOMAIN avg) =>
                (("gpu" \in DOMAIN history) <=> (avg["gpu"] # NA)))
    /\ [][pc = "gpu" =>
            /\ pc' = "return"
            /\ \A key \in {"cpu", "ram", "temp"} :
                  /\ avg'[key] = avg[key]
                  /\ history'[key] = history[key]
            /\ history'["size"] = history["size"]]_vars

\* both GPU files loaded, but the division failed on their shapes
C2_Witness ==
    /\ pc = "return"
    /\ {"gpu_used", "gpu_total"} \subseteq DOMAIN locals
    /\ GpuFailed
    /\ avg["gpu"] = NA
    /\ Len(history["cpu"]) = 2

----------------------------------------------------------------------------
(* C3: the averages are the means of the series. *)

\* the product of the denominators of the first k samples
DenProd[s \in Seq(Float), k \in Nat] ==
    IF k = 0 THEN 1 ELSE DenProd[s, k - 1] * s[k].d

\* the sum of the first k samples, over the denominator DenProd[s, Len(s)]
NumSum[s \in Seq(Float), k \in Nat] ==
    IF k = 0 THEN 0
    ELSE NumSum[s, k - 1] + s[k].n * (DenProd[s, Len(s)] \div s[k].d)

\* a = sum(s) / count(s), in float64 arithmetic without rounding
IsMeanOf(a, s) ==
    LET has(v) == \E i \in 1..Len(s) : s[i] = v
    IN  IF Len(s) = 0 \/ has(NaN) \/ (has(Inf) /\ has(NegInf)) THEN a = NaN
        ELSE IF has(Inf) THEN a = Inf
        ELSE IF has(NegInf) THEN a = NegInf
        ELSE /\ a.d > 0
             /\ a.n * Len(s) * DenProd[s, Len(s)] = a.d * NumSum[s, Len(s)]

\* q = x / y for integers x >= 0 and y >= 0
IsQuotient(q, x, y) ==
    IF y = 0 THEN q = (IF x = 0 THEN NaN ELSE Inf)
    ELSE q.d > 0 /\ q.n * y = q.d * x

\* q = (1 - x / y) * 100
IsFreeShare(q, x, y) ==
    IF y = 0 THEN q = (IF x = 0 THEN NaN ELSE NegInf)
    ELSE q.d > 0 /\ q.n * y = q.d * 100 * (y - x)

\* C3: each entry of avg is the arithmetic mean of the series of the same
\* name (cpu, ram, temp, and gpu unless avg['gpu'] is the sentinel), where
\* cpu = cpu_load/num_cores*100, ram = (1 - mem_free/mem_total)*100,
\* temp = cpu_temp/1000 and gpu = gpu_used/gpu_total*100.
C3_AveragesAreMeans ==
    /\ \A key \in DOMAIN avg :
          (avg[key] # NA) => IsMeanOf(avg[key], history[key])
    /\ (pc \in {"gpu", "return"}) =>
          /\ Len(history["cpu"]) \in {Len(locals["cpu_load"]), Len(locals["num_cores"])}
          /\ \A i \in 1..Len(history["cpu"]) :
                IsQuotient(history["cpu"][i], 100 * At(locals["cpu_load"], i),
                           At(locals["num_cores"], i))
          /\ Len(history["ram"]) \in {Len(locals["mem_free"]), Len(locals["mem_total"])}
          /\ \A i \in 1..Len(history["ram"]) :
                IsFreeShare(history["ram"][i], At(locals["mem_free"], i),
                            At(locals["mem_total"], i))
          /\ Len(history["temp"]) = Len(locals["cpu_temp"])
          /\ \A i \in 1..Len(history["temp"]) :
                IsQuotient(history["temp"][i], locals["cpu_temp"][i], 1000)
    /\ (pc = "return" /\ avg["gpu"] # NA) =>
          /\ Len(history["gpu"]) \in {Len(locals["gpu_used"]), Len(locals["gpu_total"])}
          /\ \A i \in 1..Len(history["gpu"]) :
                IsQuotient(history["gpu"][i], 100 * At(locals["gpu_used"], i),
                           At(locals["gpu_total"], i))

\* get_data is about to return four series of two different finite samples
C3_Witness ==
    /\ pc = "return"
    /\ avg["gpu"] # NA
    /\ \A key \in {"cpu", "ram", "temp", "gpu"} :
          /\ Len(history[key]) = 2
          /\ IsFinite(history[key][1]) /\ IsFinite(history[key][2])
          /\ history[key][1] # history[key][2]
          /\ IsFinite(avg[key])

----------------------------------------------------------------------------
(* C6: plot_data always saves four panels. *)

\* plot_data has returned
Plotted == Pos(Stage) > Pos("plot")

----------------------------------------------------------------------------
(* C8: the text summary. *)

\* b is q formatted with one decimal
IsOneDecimalOf(b, q) ==
    IF q.d > 0 THEN
        /\ DOMAIN b = {"tenths"}
        /\ 2 * Abs(10 * q.n - b.tenths * q.d) <= q.d
    ELSE b = [str |-> IF q.n = 0 THEN "nan" ELSE IF q.n > 0 THEN "inf" ELSE "-inf"]

\* C8: the summary has exactly five lines, host/distribution, CPU, RAM, GPU,
\* Thermal; the GPU line is "GPU: N/A" exactly when avg['gpu'] is the
\* sentinel and otherwise the GPU mean with one decimal and '%'; the
\* sentinel is never given to numeric formatting.
C8_SummaryText ==
    /\ ~(pc = "error" /\ err = [at |-> "format", why |-> "str"])
    /\ (text # <<>>) =>
          /\ Len(text) = 5
          /\ [i \in 1..5 |-> text[i].label] = <<"host", "CPU", "RAM", "GPU", "Thermal">>
          /\ (text[4].body = [str |-> "N/A"]) <=> (avg["gpu"] = NA)
          /\ (avg["gpu"] # NA) =>
                /\ text[4].unit = "%"
                /\ IsOneDecimalOf(text[4].body, avg["gpu"])

\* a summary written without GPU data
C8_Witness ==
    /\ Len(text) = 5
    /\ avg["gpu"] = NA
    /\ text[4] = [label |-> "GPU", body |-> [str |-> "N/A"], unit |-> ""]

----------------------------------------------------------------------------
(* C9: the sample count. *)

\* get_data has returned, or is about to
DataReady == Pos(Stage) > Pos("gpu")

\* C9 as stated: history['size'] is the number of samples of the cpu series
\* and of every other series present.
C9_SizeIsEverySeriesLength ==
    DataReady =>
        \A key \in DOMAIN history \ {"size"} :
            history["size"] = Len(history[key])

\* C9, amended: history['size'] is the number of samples loaded from
\* cpuLoad.txt; it is the number of samples of the cpu series whenever
\* numCores.txt holds a single value; the ram, temp and gpu series come from
\* files whose lengths are not compared with it.
C9_SizeIsCpuLoadSize ==
    (pc \in {"gpu", "return"}) =>
        /\ history["size"] = Len(locals["cpu_load"])
        /\ (Len(locals["num_cores"]) = 1) => history["size"] = Len(history["cpu"])

\* a sample count that is not the length of the temperature series
C9_Witness ==
    /\ pc = "return"
    /\ history["size"] = 2
    /\ Len(history["cpu"]) = 2
    /\ Len(history["temp"]) = 1

----------------------------------------------------------------------------
(* C10: image and text on the GPU. *)

\* the image has been transmitted
Transmitting == Photos # {}

\* C10: in every run that reaches transmission, the GPU panel of the saved
\* image is the "No GPU" placeholder exactly when the GPU line of the text
\* is "GPU: N/A".
C10_ImageAndTextAgree ==
    Transmitting =>
        ((plot_png["gpu"] = "No GPU") <=> (text[4].body = [str |-> "N/A"]))

====
